---- MODULE Spec2Model ----
(***************************************************************************)
(* Model of samples/nrf_desktop/src/services/hids.c: the HID-over-GATT     *)
(* service module of nrf_desktop.  The module keeps the protocol mode      *)
(* (report_mode), the per-report / per-mode notification matrix            *)
(* (report_enabled) and the report table indices (report_index); it       *)
(* reacts to callbacks of the HID service (protocol-mode events, CCCD      *)
(* toggles, send completions) and to events of the event manager (mouse,   *)
(* keyboard, peer, module state).                                          *)
(***************************************************************************)
EXTENDS Integers, Sequences, FiniteSets, TLC

VARIABLES
    config,         \* build configuration (Kconfig options), fixed per run
    initialized,    \* event_handler's static bool initialized
    ready,          \* module_set_state(MODULE_STATE_READY) was called
    hids_obj,       \* what hids_init registered with the HID service
    report_index,   \* static size_t report_index[REPORT_ID_COUNT]
    report_mode,    \* static enum report_mode report_mode
    report_enabled, \* static bool report_enabled[TARGET_REPORT_COUNT][REPORT_MODE_COUNT]
    fatal,          \* an __ASSERT_NO_MSG failed in a build with assertions
    inflight,       \* sends the transport accepted and has not completed
    last,           \* the callback or event the last step handled
    submitted,      \* events passed to EVENT_SUBMIT by the last step
    calls,          \* calls into the HID service made by the last step
    known           \* per report: enabled flag of the latest subscription event

vars == <<config, initialized, ready, hids_obj, report_index, report_mode,
          report_enabled, fatal, inflight, last, submitted, calls, known>>

----------------------------------------------------------------------------
(* Bounds of the model *)

MaxInFlight == 2

----------------------------------------------------------------------------
(* Constants and enumerations of hids.c *)

REPORT_SIZE_MOUSE == 5
REPORT_SIZE_KEYBOARD == 9
REPORT_SIZE_MPLAYER == 1

REPORT_ID_RESERVED == 0
REPORT_ID_MOUSE == 1
REPORT_ID_KEYBOARD == 2
REPORT_ID_MPLAYER == 3
REPORT_ID_COUNT == 4

REPORT_MODE_PROTOCOL == "REPORT_MODE_PROTOCOL"
REPORT_MODE_BOOT == "REPORT_MODE_BOOT"
ReportModes == {REPORT_MODE_PROTOCOL, REPORT_MODE_BOOT}

TARGET_REPORT_MOUSE == "TARGET_REPORT_MOUSE"
TARGET_REPORT_KEYBOARD == "TARGET_REPORT_KEYBOARD"
TARGET_REPORT_MPLAYER == "TARGET_REPORT_MPLAYER"
TargetReports == {TARGET_REPORT_MOUSE, TARGET_REPORT_KEYBOARD, TARGET_REPORT_MPLAYER}

HIDS_PM_EVT_BOOT_MODE_ENTERED == "HIDS_PM_EVT_BOOT_MODE_ENTERED"
HIDS_PM_EVT_REPORT_MODE_ENTERED == "HIDS_PM_EVT_REPORT_MODE_ENTERED"
HIDS_PM_EVT_OTHER == "HIDS_PM_EVT_OTHER"
PmEvents == {HIDS_PM_EVT_BOOT_MODE_ENTERED, HIDS_PM_EVT_REPORT_MODE_ENTERED,
             HIDS_PM_EVT_OTHER}

HIDS_CCCD_EVT_NOTIF_ENABLED == "HIDS_CCCD_EVT_NOTIF_ENABLED"
HIDS_CCCD_EVT_NOTIF_DISABLED == "HIDS_CCCD_EVT_NOTIF_DISABLED"
NotifEvents == {HIDS_CCCD_EVT_NOTIF_ENABLED, HIDS_CCCD_EVT_NOTIF_DISABLED}

PEER_STATE_CONNECTED == "PEER_STATE_CONNECTED"
PEER_STATE_DISCONNECTED == "PEER_STATE_DISCONNECTED"
PEER_STATE_SECURED == "PEER_STATE_SECURED"
PeerStates == {PEER_STATE_CONNECTED, PEER_STATE_DISCONNECTED, PEER_STATE_SECURED}

SCHAR_MAX == 127
SCHAR_MIN == -128

NULL == "NULL"

(* IS_ENABLED(CONFIG_...) of the build *)
CONFIG_DESKTOP_HID_MOUSE == config.mouse
CONFIG_DESKTOP_HID_KEYBOARD == config.keyboard
CONFIG_DESKTOP_HID_MPLAYER == config.mplayer
CONFIG_ASSERT == config.asserts

Configs == [mouse : BOOLEAN, keyboard : BOOLEAN, mplayer : BOOLEAN,
            asserts : BOOLEAN]

(* The reports the build enables *)
EnabledReports ==
    {r \in TargetReports :
        \/ r = TARGET_REPORT_MOUSE /\ CONFIG_DESKTOP_HID_MOUSE
        \/ r = TARGET_REPORT_KEYBOARD /\ CONFIG_DESKTOP_HID_KEYBOARD
        \/ r = TARGET_REPORT_MPLAYER /\ CONFIG_DESKTOP_HID_MPLAYER}

----------------------------------------------------------------------------
(* Integer helpers: C's min/max macros and conversions to fixed widths *)

min(a, b) == IF a < b THEN a ELSE b
max(a, b) == IF a > b THEN a ELSE b

u8(v) == v % 256
u16(v) == v % 65536

(* sys_put_le16(val, dst): dst[0] = val, dst[1] = val >> 8 *)
sys_put_le16(val) == <<u16(val) % 256, u16(val) \div 256>>

----------------------------------------------------------------------------
(* Events the module submits to the event manager *)

new_hid_report_subscription_event(tr, enabled) ==
    [type |-> "hid_report_subscription_event", report_type |-> tr,
     enabled |-> enabled]

new_hid_report_sent_event(tr) ==
    [type |-> "hid_report_sent_event", report_type |-> tr]

is_subscription_event(e) == e.type = "hid_report_subscription_event"
is_report_sent_event(e) == e.type = "hid_report_sent_event"

(* Positions in evs of the subscription events that carry report tr *)
SubscriptionEventsFor(evs, tr) ==
    {i \in 1..Len(evs) : is_subscription_event(evs[i]) /\ evs[i].report_type = tr}

(* What a listener of the subscription events knows after evs: for each
   report the enabled flag of the latest event that carried it *)
Announce(k, evs) ==
    [tr \in TargetReports |->
        LET at == SubscriptionEventsFor(evs, tr)
        IN IF at = {} THEN k[tr]
           ELSE evs[CHOOSE i \in at : \A j \in at : j <= i].enabled]

----------------------------------------------------------------------------
(* Mode / subscription reconciler: lines 68-139 *)

(* broadcast_subscription_change that carries the old mode's value *)
broadcast_subscription_change_old_value(re, tr, old_mode, new_mode) ==
    IF (old_mode # new_mode) /\ (re[tr][old_mode] = re[tr][new_mode])
    THEN <<>>
    ELSE <<new_hid_report_subscription_event(tr, re[tr][old_mode])>>

(* broadcast_subscription_change(tr, old_mode, new_mode), reading the
   matrix re: the events it submits *)
broadcast_subscription_change(re, tr, old_mode, new_mode) ==
    IF (old_mode # new_mode) /\ (re[tr][old_mode] = re[tr][new_mode])
    THEN <<>>   \* No change in report state.
    ELSE <<new_hid_report_subscription_event(tr, re[tr][new_mode])>>

(* pm_evt_handler, the switch: the value of report_mode after evt *)
pm_evt_mode(old_mode, evt) ==
    CASE evt = HIDS_PM_EVT_BOOT_MODE_ENTERED -> REPORT_MODE_BOOT
      [] evt = HIDS_PM_EVT_REPORT_MODE_ENTERED -> REPORT_MODE_PROTOCOL
      [] OTHER -> old_mode

(* pm_evt_broadcast without the report_mode != old_mode test *)
pm_evt_broadcast_unguarded(re, old_mode, new_mode) ==
    (IF CONFIG_DESKTOP_HID_MOUSE
     THEN broadcast_subscription_change(re, TARGET_REPORT_MOUSE, old_mode, new_mode)
     ELSE <<>>)
    \o
    (IF CONFIG_DESKTOP_HID_KEYBOARD
     THEN broadcast_subscription_change(re, TARGET_REPORT_MOUSE, old_mode, new_mode)
     ELSE <<>>)
    \o
    (IF CONFIG_DESKTOP_HID_MPLAYER
     THEN broadcast_subscription_change(re, TARGET_REPORT_MOUSE, old_mode, new_mode)
     ELSE <<>>)

(* pm_evt_handler, the if (report_mode != old_mode) block: one call of
   broadcast_subscription_change per enabled report type, each of them with
   TARGET_REPORT_MOUSE *)
pm_evt_broadcast(re, old_mode, new_mode) ==
    IF new_mode # old_mode
    THEN (IF CONFIG_DESKTOP_HID_MOUSE
          THEN broadcast_subscription_change(re, TARGET_REPORT_MOUSE,
                                             old_mode, new_mode)
          ELSE <<>>)
         \o
         (IF CONFIG_DESKTOP_HID_KEYBOARD
          THEN broadcast_subscription_change(re, TARGET_REPORT_MOUSE,
                                             old_mode, new_mode)
          ELSE <<>>)
         \o
         (IF CONFIG_DESKTOP_HID_MPLAYER
          THEN broadcast_subscription_change(re, TARGET_REPORT_MOUSE,
                                             old_mode, new_mode)
          ELSE <<>>)
    ELSE <<>>

(* notif_store that writes the report's entry of both modes *)
notif_store_both_modes(re, evt, tr, mode) ==
    [re EXCEPT ![tr] = [m \in ReportModes |->
                           (evt = HIDS_CCCD_EVT_NOTIF_ENABLED)]]

(* notif_handler: the matrix after report_enabled[tr][mode] = enabled *)
notif_store(re, evt, tr, mode) ==
    [re EXCEPT ![tr][mode] = (evt = HIDS_CCCD_EVT_NOTIF_ENABLED)]

(* notif_broadcast without the changed test *)
notif_broadcast_unchanged_too(re, cur, evt, tr, mode) ==
    IF cur = mode
    THEN broadcast_subscription_change(notif_store(re, evt, tr, mode),
                                       tr, mode, mode)
    ELSE <<>>

(* notif_broadcast without the report_mode == mode test *)
notif_broadcast_any_mode(re, cur, evt, tr, mode) ==
    IF re[tr][mode] # (evt = HIDS_CCCD_EVT_NOTIF_ENABLED)
    THEN broadcast_subscription_change(notif_store(re, evt, tr, mode),
                                       tr, mode, mode)
    ELSE <<>>

(* notif_handler: the events it submits, from the matrix re and the mode cur
   it finds *)
notif_broadcast(re, cur, evt, tr, mode) ==
    LET enabled == (evt = HIDS_CCCD_EVT_NOTIF_ENABLED)
        changed == (re[tr][mode] # enabled)
    IN IF (cur = mode) /\ changed
       THEN broadcast_subscription_change(notif_store(re, evt, tr, mode),
                                          tr, mode, mode)
       ELSE <<>>

(* What every callback of the HID service leaves alone *)
ServiceCallbackFrame ==
    UNCHANGED <<config, initialized, ready, hids_obj, report_index, fatal,
                inflight>>

pm_evt_handler(evt) ==
    /\ report_mode' = pm_evt_mode(report_mode, evt)
    /\ submitted' = pm_evt_broadcast(report_enabled, report_mode, report_mode')
    /\ known' = Announce(known, submitted')
    /\ last' = [type |-> "pm_evt_handler", event |-> [evt |-> evt]]
    /\ calls' = <<>>
    /\ UNCHANGED report_enabled
    /\ ServiceCallbackFrame

notif_handler(name, evt, tr, mode) ==
    /\ report_enabled' = notif_store(report_enabled, evt, tr, mode)
    /\ submitted' = notif_broadcast(report_enabled, report_mode, evt, tr, mode)
    /\ known' = Announce(known, submitted')
    /\ last' = [type |-> name,
                event |-> [evt |-> evt, tr |-> tr, mode |-> mode]]
    /\ calls' = <<>>
    /\ UNCHANGED report_mode
    /\ ServiceCallbackFrame

mouse_notif_handler(evt) ==
    notif_handler("mouse_notif_handler", evt, TARGET_REPORT_MOUSE,
                  REPORT_MODE_PROTOCOL)

boot_mouse_notif_handler(evt) ==
    notif_handler("boot_mouse_notif_handler", evt, TARGET_REPORT_MOUSE,
                  REPORT_MODE_BOOT)

keyboard_notif_handler(evt) ==
    notif_handler("keyboard_notif_handler", evt, TARGET_REPORT_KEYBOARD,
                  REPORT_MODE_PROTOCOL)

boot_keyboard_notif_handler(evt) ==
    notif_handler("boot_keyboard_notif_handler", evt, TARGET_REPORT_KEYBOARD,
                  REPORT_MODE_BOOT)

(* mplayer_notif_handler registered for the boot column *)
mplayer_notif_handler_boot(evt) ==
    notif_handler("mplayer_notif_handler", evt, TARGET_REPORT_MPLAYER,
                  REPORT_MODE_BOOT)

mplayer_notif_handler(evt) ==
    notif_handler("mplayer_notif_handler", evt, TARGET_REPORT_MPLAYER,
                  REPORT_MODE_PROTOCOL)

----------------------------------------------------------------------------
(* module_init: lines 171-364 *)

HidsUninit ==
    [reports |-> <<>>, cnt |-> 0,
     is_mouse |-> FALSE, boot_mouse_notif_handler |-> NULL,
     is_kb |-> FALSE, boot_kb_notif_handler |-> NULL,
     pm_evt_handler |-> NULL]

(* declare_report without ir_pos++ *)
declare_report_no_increment(s, enabled, id, size, handler) ==
    IF enabled
    THEN [reports |-> Append(s.reports,
                             [id |-> id, size |-> size, handler |-> handler]),
          index |-> [s.index EXCEPT ![id] = s.ir_pos],
          ir_pos |-> s.ir_pos]
    ELSE s

(* One "Declare HID reports" block: when the report is enabled, fill
   input_report[ir_pos], record report_index[id] = ir_pos, ir_pos++ *)
declare_report(s, enabled, id, size, handler) ==
    IF enabled
    THEN [reports |-> Append(s.reports,
                             [id |-> id, size |-> size, handler |-> handler]),
          index |-> [s.index EXCEPT ![id] = s.ir_pos],
          ir_pos |-> s.ir_pos + 1]
    ELSE s

(* The three blocks of lines 318-344 in order, from report_index ri *)
module_init_reports(ri) ==
    LET s0 == [reports |-> <<>>, index |-> ri, ir_pos |-> 0]
        s1 == declare_report(s0, CONFIG_DESKTOP_HID_MOUSE, REPORT_ID_MOUSE,
                             REPORT_SIZE_MOUSE, "mouse_notif_handler")
        s2 == declare_report(s1, CONFIG_DESKTOP_HID_KEYBOARD, REPORT_ID_KEYBOARD,
                             REPORT_SIZE_KEYBOARD, "keyboard_notif_handler")
        s3 == declare_report(s2, CONFIG_DESKTOP_HID_MPLAYER, REPORT_ID_MPLAYER,
                             REPORT_SIZE_MPLAYER, "mplayer_notif_handler")
    IN s3

(* hids_init_obj as module_init hands it to hids_init *)
module_init_obj(ri) ==
    LET s == module_init_reports(ri)
    IN [reports |-> s.reports, cnt |-> s.ir_pos,
        is_mouse |-> CONFIG_DESKTOP_HID_MOUSE,
        boot_mouse_notif_handler |->
            IF CONFIG_DESKTOP_HID_MOUSE THEN "boot_mouse_notif_handler" ELSE NULL,
        is_kb |-> CONFIG_DESKTOP_HID_KEYBOARD,
        boot_kb_notif_handler |->
            IF CONFIG_DESKTOP_HID_KEYBOARD THEN "boot_keyboard_notif_handler"
            ELSE NULL,
        pm_evt_handler |-> "pm_evt_handler"]

----------------------------------------------------------------------------
(* Report encoder and transport dispatcher: lines 366-447 *)

(* send_mouse_report that puts the high byte of y in buffer[4] unshifted *)
send_mouse_report_unshifted_y(cur, ri, event) ==
    IF cur = REPORT_MODE_BOOT
    THEN [fn |-> "hids_boot_mouse_inp_rep_send",
          buttons |-> event.button_bm,
          x |-> max(min(event.dx, SCHAR_MAX), SCHAR_MIN),
          y |-> max(min(event.dy, SCHAR_MAX), SCHAR_MIN),
          cb |-> "mouse_report_sent"]
    ELSE LET wheel == max(min(event.wheel, 127), -127)
             x_buff == sys_put_le16(max(min(event.dx, 2047), -2047))
             y_buff == sys_put_le16(max(min(event.dy, 2047), -2047))
         IN [fn |-> "hids_inp_rep_send",
             index |-> ri[REPORT_ID_MOUSE],
             data |-> <<u8(event.button_bm), u8(wheel), x_buff[1],
                        u8(y_buff[1] * 16) + (x_buff[2] % 16),
                        y_buff[2]>>,
             len |-> REPORT_SIZE_MOUSE,
             cb |-> "mouse_report_sent"]

(* send_mouse_report that stores the wheel without clamping it *)
send_mouse_report_wheel_unclamped(cur, ri, event) ==
    IF cur = REPORT_MODE_BOOT
    THEN [fn |-> "hids_boot_mouse_inp_rep_send",
          buttons |-> event.button_bm,
          x |-> max(min(event.dx, SCHAR_MAX), SCHAR_MIN),
          y |-> max(min(event.dy, SCHAR_MAX), SCHAR_MIN),
          cb |-> "mouse_report_sent"]
    ELSE LET x_buff == sys_put_le16(max(min(event.dx, 2047), -2047))
             y_buff == sys_put_le16(max(min(event.dy, 2047), -2047))
         IN [fn |-> "hids_inp_rep_send",
             index |-> ri[REPORT_ID_MOUSE],
             data |-> <<u8(event.button_bm), u8(event.wheel), x_buff[1],
                        u8(y_buff[1] * 16) + (x_buff[2] % 16),
                        u8(y_buff[2] * 16) + (y_buff[1] \div 16)>>,
             len |-> REPORT_SIZE_MOUSE,
             cb |-> "mouse_report_sent"]

(* send_mouse_report whose boot form clamps to [-127, 127] *)
send_mouse_report_boot_symmetric(cur, ri, event) ==
    IF cur = REPORT_MODE_BOOT
    THEN [fn |-> "hids_boot_mouse_inp_rep_send",
          buttons |-> event.button_bm,
          x |-> max(min(event.dx, SCHAR_MAX), -SCHAR_MAX),
          y |-> max(min(event.dy, SCHAR_MAX), -SCHAR_MAX),
          cb |-> "mouse_report_sent"]
    ELSE LET wheel == max(min(event.wheel, 127), -127)
             x_buff == sys_put_le16(max(min(event.dx, 2047), -2047))
             y_buff == sys_put_le16(max(min(event.dy, 2047), -2047))
         IN [fn |-> "hids_inp_rep_send",
             index |-> ri[REPORT_ID_MOUSE],
             data |-> <<u8(event.button_bm), u8(wheel), x_buff[1],
                        u8(y_buff[1] * 16) + (x_buff[2] % 16),
                        u8(y_buff[2] * 16) + (y_buff[1] \div 16)>>,
             len |-> REPORT_SIZE_MOUSE,
             cb |-> "mouse_report_sent"]

(* send_mouse_report: the call it makes, from the mode cur and the table ri *)
send_mouse_report(cur, ri, event) ==
    IF cur = REPORT_MODE_BOOT
    THEN LET x == max(min(event.dx, SCHAR_MAX), SCHAR_MIN)
             y == max(min(event.dy, SCHAR_MAX), SCHAR_MIN)
         IN [fn |-> "hids_boot_mouse_inp_rep_send",
             buttons |-> event.button_bm, x |-> x, y |-> y,
             cb |-> "mouse_report_sent"]
    ELSE LET wheel == max(min(event.wheel, 127), -127)
             x == max(min(event.dx, 2047), -2047)
             y == max(min(event.dy, 2047), -2047)
             x_buff == sys_put_le16(x)
             y_buff == sys_put_le16(y)
             buffer == <<u8(event.button_bm),
                         u8(wheel),
                         x_buff[1],
                         u8(y_buff[1] * 16) + (x_buff[2] % 16),
                         u8(y_buff[2] * 16) + (y_buff[1] \div 16)>>
         IN [fn |-> "hids_inp_rep_send",
             index |-> ri[REPORT_ID_MOUSE],
             data |-> buffer, len |-> REPORT_SIZE_MOUSE,
             cb |-> "mouse_report_sent"]

(* send_keyboard that takes the generic path in either mode *)
send_keyboard_generic_only(cur, ri, event) ==
    [fn |-> "hids_inp_rep_send",
     index |-> ri[REPORT_ID_KEYBOARD],
     data |-> <<u8(event.modifier_bm), 0>> \o event.keys \o <<0>>,
     len |-> REPORT_SIZE_KEYBOARD,
     cb |-> "keyboard_report_sent"]

(* send_keyboard that sends the whole buffer on the boot path too *)
send_keyboard_boot_full_length(cur, ri, event) ==
    LET report == <<u8(event.modifier_bm), 0>> \o event.keys \o <<0>>
    IN IF cur = REPORT_MODE_BOOT
       THEN [fn |-> "hids_boot_kb_inp_rep_send",
             data |-> report, len |-> REPORT_SIZE_KEYBOARD,
             cb |-> "keyboard_report_sent"]
       ELSE [fn |-> "hids_inp_rep_send",
             index |-> ri[REPORT_ID_KEYBOARD],
             data |-> report, len |-> REPORT_SIZE_KEYBOARD,
             cb |-> "keyboard_report_sent"]

(* send_keyboard: the call it makes *)
send_keyboard(cur, ri, event) ==
    LET report == <<u8(event.modifier_bm), 0>> \o event.keys \o <<0>>
    IN IF cur = REPORT_MODE_BOOT
       THEN [fn |-> "hids_boot_kb_inp_rep_send",
             data |-> report, len |-> REPORT_SIZE_KEYBOARD - 1,
             cb |-> "keyboard_report_sent"]
       ELSE [fn |-> "hids_inp_rep_send",
             index |-> ri[REPORT_ID_KEYBOARD],
             data |-> report, len |-> REPORT_SIZE_KEYBOARD,
             cb |-> "keyboard_report_sent"]

(* mouse_report_sent that names the keyboard report *)
mouse_report_sent_as_keyboard ==
    <<new_hid_report_sent_event(TARGET_REPORT_KEYBOARD)>>

(* mouse_report_sent / keyboard_report_sent: the events they submit *)
mouse_report_sent == <<new_hid_report_sent_event(TARGET_REPORT_MOUSE)>>

keyboard_report_sent == <<new_hid_report_sent_event(TARGET_REPORT_KEYBOARD)>>

----------------------------------------------------------------------------
(* event_handler and what it calls: lines 449-525 *)

(* The result an external call returns *)
Ret(ok) == IF ok THEN "0" ELSE "err"

(* __ASSERT_NO_MSG(false): fatal in a build with assertions, nothing else *)
AssertionFailed ==
    /\ fatal' = CONFIG_ASSERT
    /\ submitted' = <<>>
    /\ calls' = <<>>
    /\ UNCHANGED <<config, initialized, ready, hids_obj, report_index,
                   report_mode, report_enabled, inflight, known>>

(* Dispatch that makes the call only for a subscribed report *)
Dispatch_if_subscribed(c, tr, ok) ==
    /\ ok => Len(inflight) < MaxInFlight
    /\ calls' = IF report_enabled[tr][report_mode]
                THEN <<[call |-> c, ret |-> Ret(ok)]>>
                ELSE <<>>
    /\ inflight' = IF ok /\ report_enabled[tr][report_mode]
                   THEN Append(inflight, [cb |-> c.cb, report |-> tr])
                   ELSE inflight
    /\ submitted' = <<>>
    /\ UNCHANGED <<config, initialized, ready, hids_obj, report_index,
                   report_mode, report_enabled, fatal, known>>

(* A send function ran and made the call c for report tr; the transport
   accepted it (ok) or returned an error, which the module ignores *)
Dispatch(c, tr, ok) ==
    /\ ok => Len(inflight) < MaxInFlight
    /\ calls' = <<[call |-> c, ret |-> Ret(ok)]>>
    /\ inflight' = IF ok THEN Append(inflight, [cb |-> c.cb, report |-> tr])
                   ELSE inflight
    /\ submitted' = <<>>
    /\ UNCHANGED <<config, initialized, ready, hids_obj, report_index,
                   report_mode, report_enabled, fatal, known>>

(* notify_hids *)
notify_hids(event, ok) ==
    CASE event.state = PEER_STATE_CONNECTED ->
            /\ calls' = <<[call |-> [fn |-> "hids_notify_connected"],
                           ret |-> Ret(ok)]>>
            /\ submitted' = <<>>
            /\ UNCHANGED <<config, initialized, ready, hids_obj, report_index,
                           report_mode, report_enabled, fatal, inflight, known>>
      [] event.state = PEER_STATE_DISCONNECTED ->
            /\ calls' = <<[call |-> [fn |-> "hids_notify_disconnected"],
                           ret |-> Ret(ok)]>>
            /\ submitted' = <<>>
            /\ UNCHANGED <<config, initialized, ready, hids_obj, report_index,
                           report_mode, report_enabled, fatal, inflight, known>>
      [] event.state = PEER_STATE_SECURED ->
            /\ calls' = <<>>
            /\ submitted' = <<>>
            /\ UNCHANGED <<config, initialized, ready, hids_obj, report_index,
                           report_mode, report_enabled, fatal, inflight, known>>
      [] OTHER -> AssertionFailed

(* The module_state_event branch.  __ASSERT_NO_MSG(!initialized) stops a
   build with assertions; a build without them compiles it to nothing and
   runs module_init again.  module_set_state(MODULE_STATE_READY) is reached
   only when module_init returns 0, so a failed init leaves ready as it was. *)
module_state(event, ok) ==
    IF event.ble_state_ready
    THEN IF initialized /\ CONFIG_ASSERT
         THEN AssertionFailed
         ELSE /\ initialized' = TRUE
              /\ report_index' = module_init_reports(report_index).index
              /\ calls' = <<[call |-> [fn |-> "hids_init",
                                       init |-> module_init_obj(report_index)],
                             ret |-> Ret(ok)]>>
              /\ hids_obj' = IF ok THEN module_init_obj(report_index)
                             ELSE hids_obj
              /\ ready' = IF ok THEN TRUE ELSE ready
              /\ submitted' = <<>>
              /\ UNCHANGED <<config, report_mode, report_enabled, fatal,
                             inflight, known>>
    ELSE /\ calls' = <<>>
         /\ submitted' = <<>>
         /\ UNCHANGED <<config, initialized, ready, hids_obj, report_index,
                        report_mode, report_enabled, fatal, inflight, known>>

(* event_handler(eh); ok is the outcome of the external call it makes *)
event_handler(eh, ok) ==
    /\ last' = [type |-> eh.type, event |-> eh]
    /\ IF CONFIG_DESKTOP_HID_MOUSE /\ eh.type = "hid_mouse_event"
       THEN Dispatch(send_mouse_report(report_mode, report_index, eh),
                     TARGET_REPORT_MOUSE, ok)
       ELSE IF CONFIG_DESKTOP_HID_KEYBOARD /\ eh.type = "hid_keyboard_event"
       THEN Dispatch(send_keyboard(report_mode, report_index, eh),
                     TARGET_REPORT_KEYBOARD, ok)
       ELSE IF eh.type = "ble_peer_event"
       THEN notify_hids(eh, ok)
       ELSE IF eh.type = "module_state_event"
       THEN module_state(eh, ok)
       ELSE AssertionFailed   \* If event is unhandled

----------------------------------------------------------------------------
(* The environment: the event manager, the HID service and the transport *)

MouseEvents ==
    {[type |-> "hid_mouse_event", dx |-> 3000, dy |-> -3000, wheel |-> 200,
      button_bm |-> 5],
     [type |-> "hid_mouse_event", dx |-> -1, dy |-> 2, wheel |-> -1,
      button_bm |-> 0]}

KeyboardEvents ==
    {[type |-> "hid_keyboard_event", modifier_bm |-> 2,
      keys |-> <<4, 5, 0, 0, 0, 0>>],
     [type |-> "hid_keyboard_event", modifier_bm |-> 0,
      keys |-> <<0, 0, 0, 0, 0, 0>>]}

PeerEvents == [type : {"ble_peer_event"}, state : PeerStates]

ModuleStateEvents == [type : {"module_state_event"}, ble_state_ready : BOOLEAN]

(* A handler the HID service was given for an input report *)
Registered(handler) ==
    \E i \in 1..hids_obj.cnt : hids_obj.reports[i].handler = handler

Init ==
    /\ config \in Configs
    /\ initialized = FALSE
    /\ ready = FALSE
    /\ hids_obj = HidsUninit
    /\ report_index = [id \in 0..(REPORT_ID_COUNT - 1) |-> 0]
    /\ report_mode = REPORT_MODE_PROTOCOL
    /\ report_enabled = [tr \in TargetReports |-> [m \in ReportModes |-> FALSE]]
    /\ fatal = FALSE
    /\ inflight = <<>>
    /\ last = [type |-> "boot", event |-> [evt |-> "none"]]
    /\ submitted = <<>>
    /\ calls = <<>>
    /\ known = [tr \in TargetReports |-> FALSE]

(* The event manager delivers the events the module subscribed to
   (lines 526-530).  A module_state_event may report ble_state READY again,
   the case the assertion of line 506 is about; input events follow the
   module's own READY state. *)
ModuleStateEvent ==
    /\ ~fatal
    /\ \E eh \in ModuleStateEvents, ok \in BOOLEAN : event_handler(eh, ok)

HidMouseEvent ==
    /\ ~fatal /\ ready
    /\ \E eh \in MouseEvents, ok \in BOOLEAN : event_handler(eh, ok)

HidKeyboardEvent ==
    /\ ~fatal /\ ready
    /\ \E eh \in KeyboardEvents, ok \in BOOLEAN : event_handler(eh, ok)

BlePeerEvent ==
    /\ ~fatal /\ initialized
    /\ \E eh \in PeerEvents, ok \in BOOLEAN : event_handler(eh, ok)

(* The HID service calls the handlers hids_init registered *)
PmEvt ==
    /\ ~fatal
    /\ hids_obj.pm_evt_handler = "pm_evt_handler"
    /\ \E evt \in PmEvents : pm_evt_handler(evt)

MouseNotif ==
    /\ ~fatal
    /\ Registered("mouse_notif_handler")
    /\ \E evt \in NotifEvents : mouse_notif_handler(evt)

BootMouseNotif ==
    /\ ~fatal
    /\ hids_obj.boot_mouse_notif_handler = "boot_mouse_notif_handler"
    /\ \E evt \in NotifEvents : boot_mouse_notif_handler(evt)

KeyboardNotif ==
    /\ ~fatal
    /\ Registered("keyboard_notif_handler")
    /\ \E evt \in NotifEvents : keyboard_notif_handler(evt)

BootKeyboardNotif ==
    /\ ~fatal
    /\ hids_obj.boot_kb_notif_handler = "boot_keyboard_notif_handler"
    /\ \E evt \in NotifEvents : boot_keyboard_notif_handler(evt)

MplayerNotif ==
    /\ ~fatal
    /\ Registered("mplayer_notif_handler")
    /\ \E evt \in NotifEvents : mplayer_notif_handler(evt)

(* The sequence s without its i-th element *)
Remove(s, i) == SubSeq(s, 1, i - 1) \o SubSeq(s, i + 1, Len(s))

(* The transport completes the send inflight[i] and calls its callback *)
Completed(i, cbname, evs) ==
    /\ inflight[i].cb = cbname
    /\ inflight' = Remove(inflight, i)
    /\ submitted' = evs
    /\ last' = [type |-> cbname, event |-> inflight[i]]
    /\ calls' = <<>>
    /\ UNCHANGED <<config, initialized, ready, hids_obj, report_index,
                   report_mode, report_enabled, fatal, known>>

MouseReportSent ==
    /\ ~fatal
    /\ \E i \in 1..Len(inflight) :
          Completed(i, "mouse_report_sent", mouse_report_sent)

KeyboardReportSent ==
    /\ ~fatal
    /\ \E i \in 1..Len(inflight) :
          Completed(i, "keyboard_report_sent", keyboard_report_sent)

(* The transport fails a send it had accepted: no callback is called *)
SendFailed ==
    /\ ~fatal
    /\ \E i \in 1..Len(inflight) :
          /\ inflight' = Remove(inflight, i)
          /\ last' = [type |-> "send_failed", event |-> inflight[i]]
          /\ submitted' = <<>>
          /\ calls' = <<>>
          /\ UNCHANGED <<config, initialized, ready, hids_obj, report_index,
                         report_mode, report_enabled, fatal, known>>

Next ==
    \/ ModuleStateEvent
    \/ HidMouseEvent
    \/ HidKeyboardEvent
    \/ BlePeerEvent
    \/ PmEvt
    \/ MouseNotif
    \/ BootMouseNotif
    \/ KeyboardNotif
    \/ BootKeyboardNotif
    \/ MplayerNotif
    \/ MouseReportSent
    \/ KeyboardReportSent
    \/ SendFailed

Spec == Init /\ [][Next]_vars

----------------------------------------------------------------------------
(* Vocabulary of the properties *)

NotifHandlerNames ==
    {"mouse_notif_handler", "boot_mouse_notif_handler", "keyboard_notif_handler",
     "boot_keyboard_notif_handler", "mplayer_notif_handler"}

(* The step just taken handled a notification toggle / a protocol-mode event *)
IsToggle(l) == l.type \in NotifHandlerNames
IsPmEvent(l) == l.type = "pm_evt_handler"

(* SubscriptionMatrix[R][currentProtocolMode] *)
Effective(re, cur, tr) == re[tr][cur]

(* The subscription events among evs that carry report tr, in order *)
NotificationsFor(evs, tr) ==
    SelectSeq(evs, LAMBDA e : is_subscription_event(e) /\ e.report_type = tr)

(* All the subscription events among evs *)
Notifications(evs) == SelectSeq(evs, is_subscription_event)

----------------------------------------------------------------------------
(* C1: processing one toggle or protocol-mode event emits a subscription
   event for report R if and only if SubscriptionMatrix[R][current mode]
   after the event differs from its value before the event. *)
C1_NotifiedIffEffectiveChanged ==
    [][(IsToggle(last') \/ IsPmEvent(last')) =>
          \A tr \in TargetReports :
             (NotificationsFor(submitted', tr) # <<>>)
             <=> (Effective(report_enabled', report_mode', tr)
                    # Effective(report_enabled, report_mode, tr))]_vars

(* C2: in every reachable state the enabled flag of the latest subscription
   event carrying an enabled report R (FALSE if there was none) equals
   SubscriptionMatrix[R][current mode]. *)
C2_KnownEqualsEffective ==
    \A tr \in EnabledReports :
        known[tr] = Effective(report_enabled, report_mode, tr)

(* C3: when a protocol-mode event changes the mode, every enabled report R
   whose matrix entries for the old and the new mode differ gets a
   subscription event that carries R and SubscriptionMatrix[R][new mode]. *)
C3_EveryReportReconciled ==
    [][(IsPmEvent(last') /\ report_mode' # report_mode) =>
          \A tr \in EnabledReports :
             (report_enabled[tr][report_mode] # report_enabled[tr][report_mode'])
             => \E i \in 1..Len(submitted') :
                   submitted'[i] = new_hid_report_subscription_event(
                                       tr, report_enabled[tr][report_mode'])]_vars

(* C4: in a build with Mouse enabled, with Mouse subscribed in the Boot
   column and not in the Report column, entering Boot from Report emits
   exactly one subscription event {Mouse, TRUE}, and entering Report again
   emits exactly one {Mouse, FALSE}. *)
C4_ExactlyOneMouseEvent ==
    [][(/\ IsPmEvent(last')
        /\ CONFIG_DESKTOP_HID_MOUSE
        /\ report_enabled[TARGET_REPORT_MOUSE][REPORT_MODE_BOOT]
        /\ ~report_enabled[TARGET_REPORT_MOUSE][REPORT_MODE_PROTOCOL])
       => /\ (/\ report_mode = REPORT_MODE_PROTOCOL
              /\ last'.event.evt = HIDS_PM_EVT_BOOT_MODE_ENTERED)
             => Notifications(submitted') =
                  <<new_hid_report_subscription_event(TARGET_REPORT_MOUSE, TRUE)>>
          /\ (/\ report_mode = REPORT_MODE_BOOT
              /\ last'.event.evt = HIDS_PM_EVT_REPORT_MODE_ENTERED)
             => Notifications(submitted') =
                  <<new_hid_report_subscription_event(TARGET_REPORT_MOUSE, FALSE)>>]_vars

(* C5: a toggle (R, mode, enabled) with mode the current protocol mode emits
   exactly one subscription event {R, enabled} when the stored value changes
   and none when the stored value already equals enabled. *)
C5_ActiveModeToggle ==
    [][(IsToggle(last') /\ last'.event.mode = report_mode) =>
          LET tr == last'.event.tr
              mode == last'.event.mode
              enabled == (last'.event.evt = HIDS_CCCD_EVT_NOTIF_ENABLED)
          IN submitted' =
               IF report_enabled[tr][mode] # enabled
               THEN <<new_hid_report_subscription_event(tr, enabled)>>
               ELSE <<>>]_vars

C5_Witness ==
    /\ IsToggle(last)
    /\ last.event.mode = report_mode
    /\ report_mode = REPORT_MODE_BOOT
    /\ submitted = <<new_hid_report_subscription_event(last.event.tr, TRUE)>>

(* C6: a toggle (R, mode, enabled) with mode not the current protocol mode
   stores enabled in SubscriptionMatrix[R][mode], changes nothing else and
   emits no subscription event; a later protocol-mode event leaves the
   matrix alone, so the stored value is the effective one once that mode is
   active. *)
C6_InactiveModeToggle ==
    [][/\ (IsToggle(last') /\ last'.event.mode # report_mode) =>
             LET tr == last'.event.tr
                 mode == last'.event.mode
                 enabled == (last'.event.evt = HIDS_CCCD_EVT_NOTIF_ENABLED)
             IN /\ report_enabled' = [report_enabled EXCEPT ![tr][mode] = enabled]
                /\ report_mode' = report_mode
                /\ submitted' = <<>>
                /\ known' = known
       /\ IsPmEvent(last') =>
             \A tr \in TargetReports :
                Effective(report_enabled', report_mode', tr)
                   = report_enabled[tr][report_mode']]_vars

C6_Witness ==
    /\ IsToggle(last)
    /\ last.event.mode # report_mode
    /\ last.event.evt = HIDS_CCCD_EVT_NOTIF_ENABLED
    /\ report_enabled[last.event.tr][last.event.mode]
    /\ ~Effective(report_enabled, report_mode, last.event.tr)
    /\ submitted = <<>>

(* C7: a protocol-mode event that does not change the mode (EnteredReport in
   Report mode, EnteredBoot in Boot mode, or an event that is neither) emits
   no subscription event and leaves the mode and the matrix unchanged; the
   mode is Report until the service is initialised. *)
C7_NoOpModeEvent ==
    [][/\ ~initialized => report_mode = REPORT_MODE_PROTOCOL
       /\ (/\ IsPmEvent(last')
           /\ \/ /\ last'.event.evt = HIDS_PM_EVT_REPORT_MODE_ENTERED
                 /\ report_mode = REPORT_MODE_PROTOCOL
              \/ /\ last'.event.evt = HIDS_PM_EVT_BOOT_MODE_ENTERED
                 /\ report_mode = REPORT_MODE_BOOT
              \/ last'.event.evt \notin {HIDS_PM_EVT_REPORT_MODE_ENTERED,
                                         HIDS_PM_EVT_BOOT_MODE_ENTERED})
          => /\ submitted' = <<>>
             /\ report_mode' = report_mode
             /\ report_enabled' = report_enabled
             /\ known' = known]_vars

C7_Witness ==
    /\ IsPmEvent(last)
    /\ last.event.evt = HIDS_PM_EVT_BOOT_MODE_ENTERED
    /\ report_mode = REPORT_MODE_BOOT
    /\ CONFIG_DESKTOP_HID_MOUSE
    /\ report_enabled[TARGET_REPORT_MOUSE][REPORT_MODE_BOOT]
    /\ ~report_enabled[TARGET_REPORT_MOUSE][REPORT_MODE_PROTOCOL]
    /\ submitted = <<>>

(* The report-table index of an enabled report: its position among the
   enabled reports in Mouse, Keyboard, MediaPlayer order *)
Priority(tr) ==
    CASE tr = TARGET_REPORT_MOUSE -> 1
      [] tr = TARGET_REPORT_KEYBOARD -> 2
      [] tr = TARGET_REPORT_MPLAYER -> 3

RegistryIndex(tr) ==
    Cardinality({r \in EnabledReports : Priority(r) < Priority(tr)})

(* C8: a Mouse or Keyboard input event of an enabled report makes exactly
   one send call, chosen by the protocol mode at dispatch: in Boot mode the
   report's boot send function, with the boot form and no index; in Report
   mode hids_inp_rep_send with the report's table index and the full
   report. *)
C8_SendPathFollowsMode ==
    [][/\ (last'.type = "hid_mouse_event" /\ CONFIG_DESKTOP_HID_MOUSE) =>
             /\ Len(calls') = 1
             /\ LET c == calls'[1].call
                IN IF report_mode = REPORT_MODE_BOOT
                   THEN /\ c.fn = "hids_boot_mouse_inp_rep_send"
                        /\ DOMAIN c = {"fn", "buttons", "x", "y", "cb"}
                   ELSE /\ c.fn = "hids_inp_rep_send"
                        /\ c.index = RegistryIndex(TARGET_REPORT_MOUSE)
                        /\ Len(c.data) = REPORT_SIZE_MOUSE
                        /\ c.len = REPORT_SIZE_MOUSE
       /\ (last'.type = "hid_keyboard_event" /\ CONFIG_DESKTOP_HID_KEYBOARD) =>
             /\ Len(calls') = 1
             /\ LET c == calls'[1].call
                IN IF report_mode = REPORT_MODE_BOOT
                   THEN /\ c.fn = "hids_boot_kb_inp_rep_send"
                        /\ "index" \notin DOMAIN c
                        /\ c.len = REPORT_SIZE_KEYBOARD - 1
                   ELSE /\ c.fn = "hids_inp_rep_send"
                        /\ c.index = RegistryIndex(TARGET_REPORT_KEYBOARD)
                        /\ Len(c.data) = REPORT_SIZE_KEYBOARD
                        /\ c.len = REPORT_SIZE_KEYBOARD]_vars

C8_Witness ==
    /\ last.type = "hid_keyboard_event"
    /\ CONFIG_DESKTOP_HID_KEYBOARD
    /\ CONFIG_DESKTOP_HID_MOUSE
    /\ report_mode = REPORT_MODE_BOOT
    /\ Len(calls) = 1
    /\ calls[1].call.fn = "hids_boot_kb_inp_rep_send"

SentCallbacks == {"mouse_report_sent", "keyboard_report_sent"}

(* C9: a report-sent event is submitted only by a step in which the
   transport completes a send that was in flight, and it names the report
   that send was dispatched for; a send the transport fails, at the call or
   later, is not dispatched again and gets no report-sent event. *)
C9_ReportSentOnCompletion ==
    [][/\ (\E i \in 1..Len(submitted') : is_report_sent_event(submitted'[i])) =>
             /\ last'.type \in SentCallbacks
             /\ \E j \in 1..Len(inflight) :
                   /\ inflight[j] = last'.event
                   /\ inflight' = Remove(inflight, j)
       /\ last'.type \in SentCallbacks =>
             submitted' = <<new_hid_report_sent_event(last'.event.report)>>
       /\ last'.type = "send_failed" =>
             /\ submitted' = <<>>
             /\ calls' = <<>>
       /\ last'.type \in {"hid_mouse_event", "hid_keyboard_event"} =>
             /\ submitted' = <<>>
             /\ Len(calls') <= 1
             /\ (calls' # <<>> /\ calls'[1].ret # "0") => inflight' = inflight]_vars

C9_Witness ==
    /\ last.type = "keyboard_report_sent"
    /\ submitted = <<new_hid_report_sent_event(TARGET_REPORT_KEYBOARD)>>
    /\ report_mode = REPORT_MODE_BOOT
    /\ inflight # <<>>
    /\ inflight[1].report = TARGET_REPORT_MOUSE

----------------------------------------------------------------------------
(* The report encoder on a range of inputs.  This specification starts from
   the state the full build is in once module_init has succeeded, and feeds
   event_handler mouse and keyboard events over the input sets below, in
   either protocol mode, one send at a time. *)

EncDeltas == {-3000, -2048, -2047, -256, -129, -128, -1, 0, 127, 128, 255,
              2047, 3000}

EncWheels == {-200, -128, -127, -1, 0, 127, 200}

EncButtons == {0, 5, 255}

EncMouseEvents ==
    [type : {"hid_mouse_event"}, dx : EncDeltas, dy : EncDeltas,
     wheel : EncWheels, button_bm : EncButtons]

EncModifiers == {0, 2, 255}

EncKeys == {<<4, 5, 0, 0, 0, 0>>, <<0, 0, 0, 0, 0, 0>>, <<1, 2, 3, 4, 5, 6>>,
            <<101, 0, 7, 0, 0, 255>>}

EncKeyboardEvents ==
    [type : {"hid_keyboard_event"}, modifier_bm : EncModifiers, keys : EncKeys]

FullBuild == [mouse |-> TRUE, keyboard |-> TRUE, mplayer |-> TRUE,
              asserts |-> TRUE]

InitEnc ==
    /\ config = FullBuild
    /\ initialized = TRUE
    /\ ready = TRUE
    /\ hids_obj = module_init_obj([id \in 0..(REPORT_ID_COUNT - 1) |-> 0])
    /\ report_index =
          module_init_reports([id \in 0..(REPORT_ID_COUNT - 1) |-> 0]).index
    /\ report_mode = REPORT_MODE_PROTOCOL
    /\ report_enabled = [tr \in TargetReports |-> [m \in ReportModes |-> FALSE]]
    /\ fatal = FALSE
    /\ inflight = <<>>
    /\ last = [type |-> "module_state_event",
               event |-> [type |-> "module_state_event",
                          ble_state_ready |-> TRUE]]
    /\ submitted = <<>>
    /\ calls = <<[call |-> [fn |-> "hids_init", init |-> hids_obj],
                  ret |-> Ret(TRUE)]>>
    /\ known = [tr \in TargetReports |-> FALSE]

(* The producer of input events paces itself on the report-sent events: it
   sends the next event once the previous send has completed.  The
   transport accepts every send. *)
EncMouseEvent ==
    /\ ~fatal /\ ready
    /\ inflight = <<>>
    /\ \E eh \in EncMouseEvents : event_handler(eh, TRUE)

EncKeyboardEvent ==
    /\ ~fatal /\ ready
    /\ inflight = <<>>
    /\ \E eh \in EncKeyboardEvents : event_handler(eh, TRUE)

NextEnc ==
    \/ EncMouseEvent
    \/ EncKeyboardEvent
    \/ PmEvt
    \/ MouseReportSent
    \/ KeyboardReportSent

SpecEnc == InitEnc /\ [][NextEnc]_vars

(* Reading a report back *)

(* v saturated to lo..hi *)
Saturate(v, lo, hi) == IF v < lo THEN lo ELSE IF v > hi THEN hi ELSE v

(* An 8-bit / 12-bit field read as a two's-complement number *)
Signed8(b) == IF b >= 128 THEN b - 256 ELSE b
Signed12(v) == IF v >= 2048 THEN v - 4096 ELSE v

(* x and y of a 5-byte mouse report d, by the layout of the report map *)
UnpackX(d) == Signed12(d[3] + (d[4] % 16) * 256)
UnpackY(d) == Signed12((d[4] \div 16) + d[5] * 16)

(* The last step handled a mouse event in Report / Boot mode *)
MouseSentIn(mode) ==
    /\ last.type = "hid_mouse_event"
    /\ CONFIG_DESKTOP_HID_MOUSE
    /\ report_mode = mode

(* C11: in Report mode the mouse report is 5 bytes: byte 0 the buttons,
   byte 1 the wheel saturated to [-127, 127], and bytes 2..4 unpack, as two
   12-bit two's-complement fields, to dx and dy saturated to
   [-2047, 2047]. *)
C11_ReportMouseEncoding ==
    MouseSentIn(REPORT_MODE_PROTOCOL) =>
        LET ev == last.event
            d == calls[1].call.data
        IN /\ Len(d) = 5
           /\ \A i \in 1..5 : d[i] \in 0..255
           /\ d[1] = ev.button_bm
           /\ Signed8(d[2]) = Saturate(ev.wheel, -127, 127)
           /\ UnpackX(d) = Saturate(ev.dx, -2047, 2047)
           /\ UnpackY(d) = Saturate(ev.dy, -2047, 2047)

C11_Witness ==
    /\ MouseSentIn(REPORT_MODE_PROTOCOL)
    /\ last.event.dx = -256
    /\ last.event.dy = -3000
    /\ last.event.wheel = -200
    /\ calls[1].call.data = <<255, 129, 0, 31, 128>>


(* The mouse event of the worked example *)
ExampleMouseEvent ==
    [type |-> "hid_mouse_event", dx |-> 3000, dy |-> -3000, wheel |-> 200,
     button_bm |-> 5]

(* C12 as stated: in Report mode dx=3000, dy=-3000, wheel=200, buttons=0x05
   gives byte 0 = 0x05, wheel -127, and bytes 2..4 that unpack to
   x = 2047, y = -2047. *)
C12_ExampleWheelMinus127 ==
    (MouseSentIn(REPORT_MODE_PROTOCOL) /\ last.event = ExampleMouseEvent) =>
        LET d == calls[1].call.data
        IN /\ d[1] = 5
           /\ Signed8(d[2]) = -127
           /\ UnpackX(d) = 2047
           /\ UnpackY(d) = -2047

(* C12 amended: the same input gives byte 0 = 0x05, wheel 127 (200
   saturated to [-127, 127]), and bytes 2..4 that unpack to x = 2047,
   y = -2047. *)
C12_ExampleWheel127 ==
    (MouseSentIn(REPORT_MODE_PROTOCOL) /\ last.event = ExampleMouseEvent) =>
        LET d == calls[1].call.data
        IN /\ d = <<5, 127, 255, 23, 128>>
           /\ Signed8(d[2]) = 127
           /\ UnpackX(d) = 2047
           /\ UnpackY(d) = -2047

C12_Witness ==
    /\ MouseSentIn(REPORT_MODE_PROTOCOL)
    /\ last.event = ExampleMouseEvent
    /\ Len(calls) = 1
    /\ calls[1].call.fn = "hids_inp_rep_send"


(* C13: in Boot mode the mouse send gets the button bitmap unchanged and
   dx, dy each saturated to [-128, 127]; the wheel has no part in it.
   dx=3000, dy=-3000, buttons=0x05 gives x=127, y=-128, buttons=0x05. *)
C13_BootMouseEncoding ==
    MouseSentIn(REPORT_MODE_BOOT) =>
        LET ev == last.event
            c == calls[1].call
        IN /\ c = [fn |-> "hids_boot_mouse_inp_rep_send",
                   buttons |-> ev.button_bm,
                   x |-> Saturate(ev.dx, -128, 127),
                   y |-> Saturate(ev.dy, -128, 127),
                   cb |-> "mouse_report_sent"]
           /\ (ev.dx = 3000 /\ ev.dy = -3000 /\ ev.button_bm = 5)
                 => (c.x = 127 /\ c.y = -128 /\ c.buttons = 5)

C13_Witness ==
    /\ MouseSentIn(REPORT_MODE_BOOT)
    /\ last.event = ExampleMouseEvent
    /\ calls[1].call.x = 127
    /\ calls[1].call.y = -128

(* The bytes a send call hands over: the first len bytes of its buffer *)
Transmitted(c) == SubSeq(c.data, 1, c.len)

(* C14: the keyboard buffer is modifiers, 0, the six key codes in input
   order, 0; Report mode transmits all 9 bytes, Boot mode the first 8.
   modifiers=0x02, keys=[4,5,0,0,0,0] gives
   [0x02, 0x00, 4, 5, 0, 0, 0, 0, 0x00]. *)
C14_KeyboardEncoding ==
    (last.type = "hid_keyboard_event" /\ CONFIG_DESKTOP_HID_KEYBOARD) =>
        LET ev == last.event
            c == calls[1].call
            d == c.data
        IN /\ Len(d) = 9
           /\ d[1] = ev.modifier_bm
           /\ d[2] = 0
           /\ \A i \in 1..6 : d[2 + i] = ev.keys[i]
           /\ d[9] = 0
           /\ report_mode = REPORT_MODE_PROTOCOL => Transmitted(c) = d
           /\ report_mode = REPORT_MODE_BOOT =>
                 /\ Len(Transmitted(c)) = 8
                 /\ \A i \in 1..8 : Transmitted(c)[i] = d[i]
           /\ (ev.modifier_bm = 2 /\ ev.keys = <<4, 5, 0, 0, 0, 0>>)
                 => d = <<2, 0, 4, 5, 0, 0, 0, 0, 0>>

C14_Witness ==
    /\ last.type = "hid_keyboard_event"
    /\ CONFIG_DESKTOP_HID_KEYBOARD
    /\ report_mode = REPORT_MODE_BOOT
    /\ last.event.modifier_bm = 2
    /\ Transmitted(calls[1].call) = <<2, 0, 4, 5, 0, 0, 0, 0>>

----------------------------------------------------------------------------
(* The report id of a logical report *)
ReportId(tr) ==
    CASE tr = TARGET_REPORT_MOUSE -> REPORT_ID_MOUSE
      [] tr = TARGET_REPORT_KEYBOARD -> REPORT_ID_KEYBOARD
      [] tr = TARGET_REPORT_MPLAYER -> REPORT_ID_MPLAYER

(* C15: in each of the 8 builds initialisation gives the n enabled reports
   the table indices 0..n-1 in Mouse, Keyboard, MediaPlayer order, without
   gaps and without sharing, and declares n input reports. *)
C15_IndicesAssigned ==
    LET n == Cardinality(EnabledReports)
    IN /\ initialized =>
            /\ \A tr \in EnabledReports :
                  report_index[ReportId(tr)] = RegistryIndex(tr)
            /\ {report_index[ReportId(tr)] : tr \in EnabledReports} = 0..(n - 1)
            /\ \A a, b \in EnabledReports :
                  report_index[ReportId(a)] = report_index[ReportId(b)] => a = b
       /\ ready =>
            /\ hids_obj.cnt = n
            /\ Len(hids_obj.reports) = n
            /\ \A tr \in EnabledReports :
                  hids_obj.reports[report_index[ReportId(tr)] + 1].id = ReportId(tr)

C15_Witness ==
    /\ ready
    /\ ~CONFIG_DESKTOP_HID_MOUSE
    /\ CONFIG_DESKTOP_HID_KEYBOARD
    /\ CONFIG_DESKTOP_HID_MPLAYER
    /\ report_index[REPORT_ID_KEYBOARD] = 0
    /\ report_index[REPORT_ID_MPLAYER] = 1
    /\ hids_obj.cnt = 2

(* C16: a toggle (R, mode, enabled) changes at most the entry
   SubscriptionMatrix[R][mode] and not the protocol mode; a protocol-mode
   event changes no matrix entry; every other step (sends, completions,
   peer and module-state events) changes neither. *)
C16_OnlyReconcilerWrites ==
    [][/\ IsToggle(last') =>
             /\ report_mode' = report_mode
             /\ \A tr \in TargetReports, m \in ReportModes :
                   (tr # last'.event.tr \/ m # last'.event.mode)
                      => report_enabled'[tr][m] = report_enabled[tr][m]
       /\ IsPmEvent(last') => report_enabled' = report_enabled
       /\ (~IsToggle(last') /\ ~IsPmEvent(last')) =>
             /\ report_mode' = report_mode
             /\ report_enabled' = report_enabled]_vars

C16_Witness ==
    /\ IsToggle(last)
    /\ last.event.tr = TARGET_REPORT_KEYBOARD
    /\ last.event.mode = REPORT_MODE_BOOT
    /\ report_mode = REPORT_MODE_BOOT
    /\ report_enabled[TARGET_REPORT_KEYBOARD][REPORT_MODE_BOOT]
    /\ ~report_enabled[TARGET_REPORT_KEYBOARD][REPORT_MODE_PROTOCOL]
    /\ report_enabled[TARGET_REPORT_MOUSE][REPORT_MODE_PROTOCOL]

----------------------------------------------------------------------------
(* C18: every subscription event submitted, by a toggle or by a
   protocol-mode event, carries SubscriptionMatrix[R][mode] for the report R
   it names and the protocol mode in force after the event. *)
C18_EventCarriesCurrentValue ==
    [][\A i \in 1..Len(submitted') :
          is_subscription_event(submitted'[i]) =>
             submitted'[i].enabled =
                report_enabled'[submitted'[i].report_type][report_mode']]_vars

C18_Witness ==
    /\ IsPmEvent(last)
    /\ CONFIG_DESKTOP_HID_KEYBOARD
    /\ report_mode = REPORT_MODE_BOOT
    /\ Len(submitted) >= 2
    /\ submitted[2] = new_hid_report_subscription_event(TARGET_REPORT_MOUSE, FALSE)
    /\ report_enabled[TARGET_REPORT_MOUSE][REPORT_MODE_PROTOCOL]

(* C19: SubscriptionMatrix[MediaPlayer][Boot] is false in every reachable
   state, so MediaPlayer is not effectively subscribed in Boot mode. *)
C19_MplayerNeverSubscribedInBoot ==
    /\ ~report_enabled[TARGET_REPORT_MPLAYER][REPORT_MODE_BOOT]
    /\ report_mode = REPORT_MODE_BOOT
          => ~Effective(report_enabled, report_mode, TARGET_REPORT_MPLAYER)

C19_Witness ==
    /\ CONFIG_DESKTOP_HID_MPLAYER
    /\ IsPmEvent(last)
    /\ report_mode = REPORT_MODE_BOOT
    /\ report_enabled[TARGET_REPORT_MPLAYER][REPORT_MODE_PROTOCOL]
    /\ ~Effective(report_enabled, report_mode, TARGET_REPORT_MPLAYER)

SendFunctions == {"hids_boot_mouse_inp_rep_send", "hids_boot_kb_inp_rep_send",
                  "hids_inp_rep_send"}

(* The report of an input event the build handles, or none *)
HandledReport(l) ==
    IF l.type = "hid_mouse_event" /\ CONFIG_DESKTOP_HID_MOUSE
    THEN {TARGET_REPORT_MOUSE}
    ELSE IF l.type = "hid_keyboard_event" /\ CONFIG_DESKTOP_HID_KEYBOARD
    THEN {TARGET_REPORT_KEYBOARD}
    ELSE {}

(* C20: a Mouse or Keyboard input event the module handles makes a send
   call also when SubscriptionMatrix[report][current mode] is false. *)
C20_SendNotGatedBySubscription ==
    [][\A tr \in HandledReport(last') :
          ~Effective(report_enabled, report_mode, tr) =>
             /\ Len(calls') = 1
             /\ calls'[1].call.fn \in SendFunctions]_vars

C20_Witness ==
    /\ last.type = "hid_mouse_event"
    /\ CONFIG_DESKTOP_HID_MOUSE
    /\ ~Effective(report_enabled, report_mode, TARGET_REPORT_MOUSE)
    /\ ~known[TARGET_REPORT_MOUSE]
    /\ Len(calls) = 1
    /\ calls[1].call.fn \in SendFunctions
    /\ calls[1].ret = "0"

====
